---- MODULE Spec2Model ----
(***************************************************************************)
(* Run-specification construction of the shared-memory benchmark          *)
(* descriptors in scripts/experimental/lonestarbmk2/bmktest2.py.          *)
(*                                                                         *)
(* The harness objects (RunSpec, the configuration, the input database)   *)
(* are held in a heap so that aliasing and mutation are visible.  String  *)
(* tokens are built as the code builds them ("-t=%d", os.path.join, "+"). *)
(***************************************************************************)
EXTENDS Integers, Sequences, FiniteSets, TLC

\* ------------------------------------------------------------------ bounds
MaxThread == 2      \* startThread, endThread range over -MaxThread..MaxThread
MaxStep == 2        \* step ranges over -MaxStep..MaxStep
MaxInputs == 2      \* longest candidate sequence handed to filter_inputs
MaxCalls == 2       \* get_run_spec calls of one harness run

\* ------------------------------------------------- class attributes (9-11)
DefaultStartThread == 80
DefaultEndThread == 80
DefaultStep == 10

\* ------------------------------------------------------ harness vocabulary
None == "None"
AT_OPAQUE == "AT_OPAQUE"
AT_INPUT_FILE == "AT_INPUT_FILE"
PassChecker == "PassChecker"
ZeroPerf == "ZeroPerf"

\* ---------------------------------------------------- benchmark classes
Algorithms ==
  {"BarnesHut", "BCOuter", "BCInner", "BFS", "DMR", "GMetis",
   "IndependentSet", "MCM", "SSSP"}

relativeAppPath(cls) ==
  CASE cls = "BarnesHut" -> "barneshut/barneshut"
    [] cls = "BCOuter" -> "betweennesscentrality/betweennesscentrality-outer"
    [] cls = "BCInner" -> "betweennesscentrality/betweennesscentrality-inner"
    [] cls = "BFS" -> "bfs/bfs"
    [] cls = "DMR" -> "delaunayrefinement/delaunayrefinement"
    [] cls = "GMetis" -> "gmetis/gmetis"
    [] cls = "IndependentSet" -> "independentset/independentset"
    [] cls = "MCM" -> "matching/bipartite-mcm"
    [] cls = "SSSP" -> "sssp/sssp"

benchmark(cls) ==
  CASE cls = "BarnesHut" -> "barneshut"
    [] cls = "BCOuter" -> "bc-outer"
    [] cls = "BCInner" -> "bc-inner"
    [] cls = "BFS" -> "bfs"
    [] cls = "DMR" -> "dmr"
    [] cls = "GMetis" -> "gmetis"
    [] cls = "IndependentSet" -> "independentset"
    [] cls = "MCM" -> "mcm"
    [] cls = "SSSP" -> "sssp"

\* The tokens a class's get_run_spec override appends to every spec, in the
\* order of its set_arg calls; classes without an override append nothing.
ExtraArgsNoDelta(cls) ==
  CASE cls = "BarnesHut" -> <<"-n=50000", "-steps=1", "-seed=0">>
    [] cls = "GMetis" -> <<"256">>
    [] cls = "MCM" -> <<"-inputType=generated", "-n=1000000",
                        "-numEdges=100000000", "-seed=0", "-numGroups=10000">>
    [] OTHER -> <<>>

ExtraArgs(cls) ==
  CASE cls = "BarnesHut" -> <<"-n=50000", "-steps=1", "-seed=0">>
    [] cls = "GMetis" -> <<"256">>
    [] cls = "MCM" -> <<"-inputType=generated", "-n=1000000",
                        "-numEdges=100000000", "-numGroups=10000", "-seed=0">>
    [] cls = "SSSP" -> <<"-delta=8">>
    [] OTHER -> <<>>

\* ------------------------------------------------------- input database
Names == {"a", "gen"}
Formats == {"bin/galois", "mesh", "nothing", "text"}
InputRefs == Names \X Formats

InputItem(ref) ==
  [name |-> ref[1],
   props |-> [format |-> ref[2], file |-> "/data/" \o ref[1] \o ".gr"]]

\* ------------------------------------------------------- configurations
ConfigRefs == {"cfgA", "cfgB"}

ConfigTable ==
  [c \in ConfigRefs |->
     IF c = "cfgA"
       THEN [pathToApps |-> "/opt/apps", logOutputDirectory |-> "/logs"]
       ELSE [pathToApps |-> "apps/", logOutputDirectory |-> ""]]

VARIABLES
  startThread, endThread, step,   \* class attributes of SharedMemApp
  BINARIES,                       \* the registry of benchmarks to run
  inputdb,                        \* input objects, by reference
  configVars,                     \* configuration objects, by reference
  heap,                           \* RunSpec objects, by identity (index)
  pc,                             \* position inside the current call
  self, bmkinput, config,         \* arguments of the current call
  sweep,                          \* values of range() still to iterate
  listOfRunSpecs,                 \* the local list of get_default_run_specs
  returned,                       \* outcomes handed back to the harness
  inputs, fidx, filtered, fpc     \* filter_inputs: argument, cursor, result

attrs == <<startThread, endThread, step>>
env == <<BINARIES, inputdb, configVars>>
frame == <<pc, self, bmkinput, config, sweep, listOfRunSpecs>>
filt == <<inputs, fidx, filtered, fpc>>
vars == <<attrs, env, heap, frame, returned, filt>>

\* ------------------------------------------------------ library semantics
\* os.path.join(a, b)
os_path_join(a, b) ==
  IF Len(b) > 0 /\ Head(b) = "/" THEN b
  ELSE IF a = "" \/ SubSeq(a, Len(a), Len(a)) = "/" THEN a \o b
  ELSE a \o "/" \o b

\* range(a, b, s) for s # 0
RECURSIVE PyRange(_, _, _)
PyRange(a, b, s) ==
  IF (s > 0 /\ a < b) \/ (s < 0 /\ a > b)
    THEN <<a>> \o PyRange(a + s, b, s)
    ELSE <<>>

\* range() raises ValueError exactly when its step is zero
RangeRaisesNonPositive(s) == s <= 0

RangeRaises(s) == s = 0

\* config.get_var(name)
get_var(cfg, name) == configVars[cfg][name]

\* bmk2.RunSpec and its setters
RunSpec(cls, inp) ==
  [bmk_binary |-> cls, bmk_input |-> inp, binary |-> None, args |-> <<>>,
   checker |-> None, perf |-> None]

set_binary(x, cwd, path) == [x EXCEPT !.binary = os_path_join(cwd, path)]

set_arg(x, arg, type) ==
  [x EXCEPT !.args = Append(@, [arg |-> arg, type |-> type])]

set_checker(x, c) == [x EXCEPT !.checker = c]

set_perf(x, p) == [x EXCEPT !.perf = p]

\* GraphBMKSharedMem.getUniqueStatFile
getUniqueStatFile(cls, numThreads, graphName) ==
  benchmark(cls) \o "_" \o ToString(numThreads) \o "_" \o graphName \o ".log"

\* ------------------------------------------------------------ the program
\* finput of filter_inputs
finputNoGenerated(x) ==
  IF x.props.format = "bin/galois" THEN TRUE
  ELSE IF x.props.format = "mesh" THEN TRUE
  ELSE FALSE

finput(x) ==
  IF x.props.format = "bin/galois" THEN TRUE
  ELSE IF x.props.format = "mesh" THEN TRUE
  ELSE IF x.props.format = "nothing" THEN TRUE
  ELSE FALSE

\* assert config != None
ConfigPresentAlways(cfg) == TRUE

ConfigPresent(cfg) == cfg # None

\* elif numThreads == 0: continue
SkipsValue(v) == ~(v = 0 /\ step # 1) /\ v = 0

\* if numThreads == 0 and self.step != 1: numThreads = 1
ThreadCountKeepZero(v) == v

ThreadCount(v) == IF v = 0 /\ step # 1 THEN 1 ELSE v

\* nameToAppend, as it stands when the stat file is named
nameToAppend(inp) ==
  IF inp.props.format = "nothing" THEN "gen" ELSE inp.name

\* the if/elif/else that binds the input file
BindInputSwapped(x, inp) ==
  IF inp.props.format = "nothing" THEN x
  ELSE IF inp.props.format = "mesh"
    THEN set_arg(x, inp.props.file, AT_INPUT_FILE)
  ELSE set_arg(x, inp.props.file, AT_OPAQUE)

BindInput(x, inp) ==
  IF inp.props.format = "nothing" THEN x
  ELSE IF inp.props.format # "mesh"
    THEN set_arg(x, inp.props.file, AT_INPUT_FILE)
  ELSE set_arg(x, inp.props.file, AT_OPAQUE)

\* One pass of the loop body that reaches listOfRunSpecs.append(x).
BuildSpec(cls, inp, cfg, numThreads) ==
  LET x0 == RunSpec(cls, inp)
      x1 == set_binary(x0, "",
                       os_path_join(get_var(cfg, "pathToApps"),
                                    relativeAppPath(cls)))
      x2 == set_arg(x1, "-t=" \o ToString(numThreads), AT_OPAQUE)
      x3 == BindInput(x2, inp)
      x4 == set_arg(x3,
                    "-statFile=" \o
                      os_path_join(get_var(cfg, "logOutputDirectory"),
                                   getUniqueStatFile(cls, numThreads,
                                                     nameToAppend(inp))),
                    AT_OPAQUE)
  IN set_perf(set_checker(x4, PassChecker), ZeroPerf)

RECURSIVE set_args(_, _)
set_args(x, toks) ==
  IF toks = <<>> THEN x
  ELSE set_args(set_arg(x, Head(toks), AT_OPAQUE), Tail(toks))

Outcome(result, specs) ==
  [cls |-> self, input |-> bmkinput, config |-> config,
   outcome |-> result, specs |-> specs]

\* get_run_spec(bmkinput, config) is entered.
Enter(cls, inp, cfg) ==
  /\ pc = "idle"
  /\ fpc = "idle"
  /\ pc' = "assert"
  /\ self' = cls
  /\ bmkinput' = inp
  /\ config' = cfg
  /\ UNCHANGED <<attrs, env, heap, sweep, listOfRunSpecs, returned, filt>>

\* Any class, any input of the database, any configuration or none.
get_run_spec(cls, inp, cfg) ==
  /\ returned = <<>>
  /\ Enter(cls, inp, cfg)

\* A harness run: the registered benchmarks on the inputs their
\* filter_inputs lets through, under a configuration.
RunAlgorithms == {"MCM", "SSSP", "BFS"}

run_get_run_spec(cls, inp, cfg) ==
  /\ Len(returned) < MaxCalls
  /\ cls \in RunAlgorithms
  /\ finput(inputdb[inp])
  /\ cfg # None
  /\ Enter(cls, inp, cfg)

\* assert config != None; listOfRunSpecs = []
AssertConfigSharedList ==
  /\ pc = "assert"
  /\ IF ConfigPresent(config)
       THEN /\ pc' = "range"
            /\ UNCHANGED <<listOfRunSpecs, returned>>
       ELSE /\ pc' = "idle"
            /\ returned' = Append(returned, Outcome("AssertionError", <<>>))
            /\ UNCHANGED listOfRunSpecs
  /\ UNCHANGED <<attrs, env, heap, self, bmkinput, config, sweep, filt>>

AssertConfig ==
  /\ pc = "assert"
  /\ IF ConfigPresent(config)
       THEN /\ pc' = "range"
            /\ listOfRunSpecs' = <<>>
            /\ UNCHANGED returned
       ELSE /\ pc' = "idle"
            /\ returned' = Append(returned, Outcome("AssertionError", <<>>))
            /\ UNCHANGED listOfRunSpecs
  /\ UNCHANGED <<attrs, env, heap, self, bmkinput, config, sweep, filt>>

\* The values the for statement iterates over.
SweepValuesExclusive == PyRange(startThread, endThread, step)

SweepValues == PyRange(startThread, endThread + 1, step)

\* range(self.startThread, self.endThread + 1, self.step)
EnterLoop ==
  /\ pc = "range"
  /\ IF RangeRaises(step)
       THEN /\ pc' = "idle"
            /\ returned' = Append(returned, Outcome("ValueError", <<>>))
            /\ UNCHANGED sweep
       ELSE /\ pc' = "loop"
            /\ sweep' = SweepValues
            /\ UNCHANGED returned
  /\ UNCHANGED <<attrs, env, heap, self, bmkinput, config, listOfRunSpecs,
                 filt>>

\* One iteration of the for loop.
LoopBody ==
  /\ pc = "loop"
  /\ sweep # <<>>
  /\ LET v == Head(sweep) IN
       IF SkipsValue(v)
         THEN /\ sweep' = Tail(sweep)
              /\ UNCHANGED <<heap, listOfRunSpecs, pc, returned>>
       ELSE IF config = None
         THEN \* config.get_var on None, after RunSpec(self, bmkinput)
              /\ heap' = Append(heap, RunSpec(self, inputdb[bmkinput]))
              /\ pc' = "idle"
              /\ returned' = Append(returned, Outcome("AttributeError", <<>>))
              /\ UNCHANGED <<sweep, listOfRunSpecs>>
       ELSE /\ heap' = Append(heap, BuildSpec(self, inputdb[bmkinput], config,
                                              ThreadCount(v)))
            /\ listOfRunSpecs' = Append(listOfRunSpecs, Len(heap) + 1)
            /\ sweep' = Tail(sweep)
            /\ UNCHANGED <<pc, returned>>
  /\ UNCHANGED <<attrs, env, self, bmkinput, config, filt>>

\* return listOfRunSpecs
ReturnDefault ==
  /\ pc = "loop"
  /\ sweep = <<>>
  /\ pc' = "override"
  /\ UNCHANGED <<attrs, env, heap, self, bmkinput, config, sweep,
                 listOfRunSpecs, returned, filt>>

\* for s in specs: s.set_arg(...); return specs
ReturnSpecs ==
  /\ pc = "override"
  /\ heap' = [i \in 1..Len(heap) |->
                IF \E k \in 1..Len(listOfRunSpecs) : listOfRunSpecs[k] = i
                  THEN set_args(heap[i], ExtraArgs(self))
                  ELSE heap[i]]
  /\ returned' = Append(returned, Outcome("ok", listOfRunSpecs))
  /\ pc' = "idle"
  /\ UNCHANGED <<attrs, env, self, bmkinput, config, sweep, listOfRunSpecs,
                 filt>>

\* filter_inputs(inputs) is entered.
filter_inputs(cand) ==
  /\ fpc = "idle"
  /\ pc = "idle"
  /\ returned = <<>>
  /\ fpc' = "filter"
  /\ inputs' = cand
  /\ fidx' = 1
  /\ filtered' = <<>>
  /\ UNCHANGED <<attrs, env, heap, frame, returned>>

\* filter() applies finput to the next item.
FilterStep ==
  /\ fpc = "filter"
  /\ fidx <= Len(inputs)
  /\ filtered' = IF finput(inputdb[inputs[fidx]])
                   THEN Append(filtered, inputs[fidx])
                   ELSE filtered
  /\ fidx' = fidx + 1
  /\ UNCHANGED <<attrs, env, heap, frame, returned, inputs, fpc>>

\* filter() is exhausted; the result is handed back.
FilterReturn ==
  /\ fpc = "filter"
  /\ fidx > Len(inputs)
  /\ fpc' = "done"
  /\ UNCHANGED <<attrs, env, heap, frame, returned, inputs, fidx, filtered>>

\* ------------------------------------------------------- specifications
RECURSIVE SeqsUpTo(_, _)
SeqsUpTo(S, n) ==
  IF n = 0 THEN {<<>>}
  ELSE LET shorter == SeqsUpTo(S, n - 1)
       IN shorter \cup {Append(s, x) : s \in shorter, x \in S}

InitCommon ==
  /\ BINARIES = <<"MCM">>
  /\ inputdb = [r \in InputRefs |-> InputItem(r)]
  /\ configVars = ConfigTable
  /\ heap = <<>>
  /\ pc = "idle"
  /\ self = None
  /\ bmkinput = <<"a", "bin/galois">>
  /\ config = None
  /\ sweep = <<>>
  /\ listOfRunSpecs = <<>>
  /\ returned = <<>>
  /\ inputs = <<>>
  /\ fidx = 1
  /\ filtered = <<>>
  /\ fpc = "idle"

DefaultAttrs ==
  /\ startThread = DefaultStartThread
  /\ endThread = DefaultEndThread
  /\ step = DefaultStep

\* One call under every sweep of the class attributes.
Init ==
  /\ InitCommon
  /\ \/ DefaultAttrs
     \/ /\ startThread \in (0 - MaxThread)..MaxThread
        /\ endThread \in (0 - MaxThread)..MaxThread
        /\ step \in (0 - MaxStep)..MaxStep

Next ==
  \/ \E cls \in Algorithms, inp \in InputRefs, cfg \in ConfigRefs \cup {None} :
       get_run_spec(cls, inp, cfg)
  \/ AssertConfig
  \/ EnterLoop
  \/ LoopBody
  \/ ReturnDefault
  \/ ReturnSpecs

Spec == Init /\ [][Next]_vars

\* A harness run of several calls, under the default sweep or a short one.
RunSweeps == {<<DefaultStartThread, DefaultEndThread, DefaultStep>>, <<1, 2, 1>>}

InitRun ==
  /\ InitCommon
  /\ \E t \in RunSweeps :
       /\ startThread = t[1]
       /\ endThread = t[2]
       /\ step = t[3]

NextRun ==
  \/ \E cls \in RunAlgorithms, inp \in InputRefs, cfg \in ConfigRefs :
       run_get_run_spec(cls, inp, cfg)
  \/ AssertConfig
  \/ EnterLoop
  \/ LoopBody
  \/ ReturnDefault
  \/ ReturnSpecs

SpecRun == InitRun /\ [][NextRun]_vars

\* filter_inputs on every candidate sequence.
InitFilter ==
  /\ InitCommon
  /\ DefaultAttrs

NextFilter ==
  \/ \E cand \in SeqsUpTo(InputRefs, MaxInputs) : filter_inputs(cand)
  \/ FilterStep
  \/ FilterReturn

SpecFilter == InitFilter /\ [][NextFilter]_vars

\* ---------------------------------------------------------------- claims
Accepted == {"bin/galois", "mesh", "nothing"}

HasPrefix(s, p) == Len(s) >= Len(p) /\ SubSeq(s, 1, Len(p)) = p

Calls == {returned[i] : i \in 1..Len(returned)}

OkCalls == {c \in Calls : c.outcome = "ok"}

Descs(c) == [j \in 1..Len(c.specs) |-> heap[c.specs[j]]]

Tokens(d) == [k \in 1..Len(d.args) |-> d.args[k].arg]

StatFileArgs(d) ==
  SelectSeq(d.args, LAMBDA a : HasPrefix(a.arg, "-statFile="))

ThreadDomain ==
  (((0 - MaxThread) - 1)..(MaxThread + 1)) \cup {DefaultStartThread}

HasThread(d) ==
  /\ Len(d.args) >= 1
  /\ \E n \in ThreadDomain : d.args[1].arg = "-t=" \o ToString(n)

ThreadOf(d) ==
  CHOOSE n \in ThreadDomain : d.args[1].arg = "-t=" \o ToString(n)

\* The display name the stat file is to carry, as the claims state it.
DisplayName(item) ==
  IF item.props.format = "nothing" THEN "gen" ELSE item.name

StatToken(c, n) ==
  "-statFile=" \o
    os_path_join(configVars[c.config].logOutputDirectory,
                 getUniqueStatFile(c.cls, n, DisplayName(inputdb[c.input])))

\* The zero-thread rule, as the claims state it, over the computed values.
RECURSIVE ZeroRule(_)
ZeroRule(vals) ==
  IF vals = <<>> THEN <<>>
  ELSE LET v == Head(vals)
           here == IF v # 0 THEN <<v>>
                   ELSE IF step # 1 THEN <<1>>
                   ELSE <<>>
       IN here \o ZeroRule(Tail(vals))

Computed == PyRange(startThread, endThread + 1, step)

\* --- C1 ---------------------------------------------------------------
\* C1: when filter_inputs has finished, its result is exactly the
\* subsequence of the candidates whose format is 'bin/galois', 'mesh' or
\* 'nothing' (same multiplicity, same relative order); while it runs, the
\* result so far is that subsequence of the candidates already visited.
C1_FilterKeepsAccepted ==
  /\ fpc # "idle" =>
       filtered =
         SelectSeq(SubSeq(inputs, 1, fidx - 1),
                   LAMBDA r : inputdb[r].props.format \in Accepted)
  /\ fpc = "done" =>
       /\ fidx = Len(inputs) + 1
       /\ filtered =
            SelectSeq(inputs, LAMBDA r : inputdb[r].props.format \in Accepted)

C1_Witness ==
  /\ fpc = "done"
  /\ inputs = <<(<<"a", "text">>), (<<"gen", "nothing">>)>>
  /\ filtered = <<(<<"gen", "nothing">>)>>

\* --- C2 ---------------------------------------------------------------
\* The values of the closed range [startThread, endThread] reached from
\* startThread in strides of |step|, less the value 0 when step = 1.
AbsStep == IF step < 0 THEN 0 - step ELSE step

ValidValues ==
  {v \in startThread..endThread :
     /\ (v - startThread) % AbsStep = 0
     /\ ~(v = 0 /\ step = 1)}

Ascending(c) ==
  /\ \A j \in 1..Len(c.specs) : HasThread(Descs(c)[j])
  /\ \A j \in 1..(Len(c.specs) - 1) :
       ThreadOf(Descs(c)[j]) < ThreadOf(Descs(c)[j + 1])

OnePerValidValue(c) ==
  /\ Len(c.specs) = Cardinality(ValidValues)
  /\ {ThreadOf(Descs(c)[j]) : j \in 1..Len(c.specs)} =
       {IF v = 0 THEN 1 ELSE v : v \in ValidValues}
  /\ startThread > endThread => c.specs = <<>>
  /\ (/\ startThread = DefaultStartThread
      /\ endThread = DefaultEndThread
      /\ step = DefaultStep) =>
       /\ Len(c.specs) = 1
       /\ Descs(c)[1].args[1].arg = "-t=80"

NeverComputesZero == \A k \in 1..Len(Computed) : Computed[k] # 0

\* C2 as stated: for every (startThread, endThread, step), a call that
\* returns yields its descriptors in ascending thread-count order, one per
\* valid value of the closed range.  It is taken here on the sweeps that
\* never compute the value 0, so that the zero-thread substitution plays no
\* part, and the count is stated for step >= 1 only, where the stride of
\* the closed range is not in doubt.
C2_AscendingForEveryStep ==
  \A c \in OkCalls :
    NeverComputesZero =>
      /\ Ascending(c)
      /\ step >= 1 => OnePerValidValue(c)

\* C2 as amended: for every step >= 1 and non-null config the call returns
\* one descriptor per valid value of the closed range, in strictly
\* ascending thread-count order; an empty range yields the empty sequence
\* and the default (80, 80, 10) yields exactly one descriptor with '-t=80'.
C2_AscendingForPositiveStep ==
  \A c \in Calls :
    (c.config # None /\ step >= 1) =>
      /\ c.outcome = "ok"
      /\ Ascending(c)
      /\ OnePerValidValue(c)

C2_Witness ==
  \E c \in OkCalls :
    /\ step = 2
    /\ startThread < 0
    /\ Len(c.specs) >= 3
    /\ Descs(c)[2].args[1].arg = "-t=1"

\* --- C3 ---------------------------------------------------------------
\* C3: in every returned descriptor the input binding follows the format
\* tag: 'nothing' adds no argument carrying the file and names the stat file
\* with 'gen'; 'mesh' adds the file as a plain argument and names the stat
\* file with the input's name; 'bin/galois' adds the file tagged
\* AT_INPUT_FILE and names the stat file with the input's name.
BindingFollowsFormat(c, d) ==
  LET item == inputdb[c.input]
      fmt == item.props.format
      file == item.props.file
      tagged == {k \in 1..Len(d.args) : d.args[k].type = AT_INPUT_FILE}
      carrying == {k \in 1..Len(d.args) : d.args[k].arg = file}
      named(nm) ==
        /\ Len(StatFileArgs(d)) = 1
        /\ \E n \in ThreadDomain :
             StatFileArgs(d)[1].arg =
               "-statFile=" \o
                 os_path_join(configVars[c.config].logOutputDirectory,
                              getUniqueStatFile(c.cls, n, nm))
  IN CASE fmt = "nothing" ->
            /\ tagged = {}
            /\ carrying = {}
            /\ named("gen")
       [] fmt = "mesh" ->
            /\ tagged = {}
            /\ Cardinality(carrying) = 1
            /\ \A k \in carrying : d.args[k].type = AT_OPAQUE
            /\ named(item.name)
       [] fmt = "bin/galois" ->
            /\ Cardinality(carrying) = 1
            /\ tagged = carrying
            /\ named(item.name)
       [] OTHER -> TRUE

C3_BindingByFormat ==
  \A c \in OkCalls :
    \A j \in 1..Len(c.specs) : BindingFollowsFormat(c, Descs(c)[j])

C3_Witness ==
  \E c \in OkCalls :
    /\ c.input = <<"a", "mesh">>
    /\ Len(c.specs) >= 2
    /\ \E k \in 1..Len(Descs(c)[1].args) :
         Descs(c)[1].args[k] = [arg |-> "/data/a.gr", type |-> AT_OPAQUE]

\* --- C4 ---------------------------------------------------------------
\* The table of appended tokens, as the claim states it.
AppendedTokens(cls) ==
  CASE cls = "BarnesHut" -> <<"-n=50000", "-steps=1", "-seed=0">>
    [] cls = "GMetis" -> <<"256">>
    [] cls = "MCM" -> <<"-inputType=generated", "-n=1000000",
                        "-numEdges=100000000", "-numGroups=10000", "-seed=0">>
    [] cls = "SSSP" -> <<"-delta=8">>
    [] cls \in {"BCOuter", "BCInner", "BFS", "DMR", "IndependentSet"} -> <<>>

FileTokens(item) ==
  IF item.props.format = "nothing" THEN <<>> ELSE <<item.props.file>>

\* C4: for every class and accepted input, descriptor j of a returned
\* sequence has the tokens '-t=N', the input file (absent for 'nothing'),
\* one '-statFile=<path>', then the class's fixed tokens in table order and
\* nothing else; the sequence has one descriptor per thread count of the
\* default sequence, in the same order.
C4_ArgumentOrder ==
  \A c \in OkCalls :
    inputdb[c.input].props.format \in Accepted =>
      /\ Len(c.specs) = Len(ZeroRule(Computed))
      /\ \A j \in 1..Len(c.specs) :
           LET n == ZeroRule(Computed)[j]
           IN Tokens(Descs(c)[j]) =
                <<"-t=" \o ToString(n)>> \o FileTokens(inputdb[c.input]) \o
                <<StatToken(c, n)>> \o AppendedTokens(c.cls)

C4_Witness ==
  \E c \in OkCalls :
    /\ c.cls = "MCM"
    /\ c.input = <<"a", "nothing">>
    /\ c.config = "cfgA"
    /\ Len(c.specs) = 1
    /\ Tokens(Descs(c)[1]) =
         <<"-t=80", "-statFile=/logs/mcm_80_gen.log", "-inputType=generated",
           "-n=1000000", "-numEdges=100000000", "-numGroups=10000",
           "-seed=0">>

\* --- C5 ---------------------------------------------------------------
\* C5 as stated: within one call, for every step # 0, the stat-file names
\* of the produced descriptors are pairwise distinct.
C5_StatFilesDistinctInCall ==
  \A c \in OkCalls :
    \A j, k \in 1..Len(c.specs) :
      j # k => StatFileArgs(Descs(c)[j]) # StatFileArgs(Descs(c)[k])

\* --- C6 ---------------------------------------------------------------
\* C6 as stated: across the calls of one run, for one benchmark and inputs
\* with pairwise distinct names, no two descriptors share a stat-file path.
C6_StatFilesDistinctInRun ==
  \A a, b \in 1..Len(returned) :
    (/\ a < b
     /\ returned[a].outcome = "ok"
     /\ returned[b].outcome = "ok"
     /\ returned[a].cls = returned[b].cls
     /\ inputdb[returned[a].input].name # inputdb[returned[b].input].name) =>
      \A j \in 1..Len(returned[a].specs), k \in 1..Len(returned[b].specs) :
        StatFileArgs(Descs(returned[a])[j]) #
          StatFileArgs(Descs(returned[b])[k])

\* --- C7 ---------------------------------------------------------------
\* C7: a call without a configuration object constructs no RunSpec at any
\* point, and ends with an assertion failure handed to the caller and no
\* descriptor returned.
C7_NoConfigFails ==
  /\ (pc # "idle" /\ config = None) => heap = <<>>
  /\ \A c \in Calls :
       c.config = None =>
         /\ c.outcome = "AssertionError"
         /\ c.specs = <<>>
         /\ heap = <<>>

C7_Witness ==
  \E c \in Calls :
    /\ c.config = None
    /\ c.outcome = "AssertionError"
    /\ step = 1
    /\ startThread = 1
    /\ endThread = 2

C9_ZeroThreadRule ==
  \A c \in OkCalls :
    /\ Len(c.specs) = Len(ZeroRule(Computed))
    /\ \A j \in 1..Len(c.specs) :
         LET d == Descs(c)[j]
             n == ZeroRule(Computed)[j]
         IN /\ d.args[1] = [arg |-> "-t=" \o ToString(n), type |-> AT_OPAQUE]
            /\ StatFileArgs(d) = <<[arg |-> StatToken(c, n), type |-> AT_OPAQUE]>>
            /\ \A k \in 1..Len(d.args) : d.args[k].arg # "-t=0"

C9_Witness ==
  \E c \in OkCalls :
    /\ startThread = 0
    /\ step = 2
    /\ c.cls = "BFS"
    /\ c.config = "cfgA"
    /\ c.input = <<"a", "bin/galois">>
    /\ Len(c.specs) = 2
    /\ Tokens(Descs(c)[1]) =
         <<"-t=1", "/data/a.gr", "-statFile=/logs/bfs_1_a.log">>

\* --- C10 --------------------------------------------------------------
Contents(c) == [outcome |-> c.outcome, descs |-> Descs(c)]

SameResultForSameArguments ==
  \A a, b \in 1..Len(returned) :
    (/\ returned[a].cls = returned[b].cls
     /\ returned[a].input = returned[b].input
     /\ returned[a].config = returned[b].config) =>
      Contents(returned[a]) = Contents(returned[b])

FreshSpecs ==
  /\ \A a \in 1..Len(returned) :
       \A j, k \in 1..Len(returned[a].specs) :
         j # k => returned[a].specs[j] # returned[a].specs[k]
  /\ \A a, b \in 1..Len(returned) :
       a # b =>
         \A j \in 1..Len(returned[a].specs), k \in 1..Len(returned[b].specs) :
           returned[a].specs[j] # returned[b].specs[k]

====
